---- MODULE Spec2Model ----
(***************************************************************************)
(* Model of aiogram_dialog.context.storage.StorageProxy: key construction, *)
(* load/save/remove of contexts and stacks against a key-value store,      *)
(* state-identifier resolution and access-settings (de)serialisation.      *)
(*                                                                         *)
(* Python values: None is <<>>, an optional value v is <<v>>, a str is a   *)
(* sequence of one-character strings, a dict is a function from its key    *)
(* names (an empty dict is <<>>), a list is a sequence.                    *)
(***************************************************************************)
EXTENDS Integers, Sequences, FiniteSets, TLC

\* ---------------------------------------------------------------- bounds
MaxTextLen == 3
MaxIdLen == 2

\* ------------------------------------------------- proxy configuration
BotId == 7
ChatId == 3
UserId == 5
ThreadId == <<>>

\* message ids are positive; save_stack only tests their truthiness
MessageIds == {1}

\* Identifiers used as intent ids and stack ids ("" is the default stack).
IntentIds == {<<"i">>, <<"j">>}
StackIds == {<<>>, <<"i">>}

\* ChatMemberStatus enum literals (aiogram.enums.ChatMemberStatus).
ChatMemberStatus == {"creator", "administrator", "member", "restricted", "left", "kicked"}

\* ----------------------------------------------------- state registry
\* class M(StatesGroup): a = State(); b = State(); x = State("a:b"); d = State("a")
\*     class N(StatesGroup): a = State()
\* M.__all_states__ lists M's own states, then those of the nested N.
StateMa == [inst |-> 1, state |-> <<"M", ":", "a">>]
StateMb == [inst |-> 2, state |-> <<"M", ":", "b">>]
StateMab == [inst |-> 3, state |-> <<"M", ":", "a", ":", "b">>]
StateMd == [inst |-> 5, state |-> <<"M", ":", "a">>]
StateNa == [inst |-> 4, state |-> <<"N", ":", "a">>]
state_groups == [g \in {<<"M">>, <<"N">>} |->
                   IF g = <<"M">> THEN <<StateMa, StateMb, StateMab, StateMd, StateNa>>
                                  ELSE <<StateNa>>]
RegStates == {StateMa, StateMb, StateMab, StateMd, StateNa}

\* ----------------------------------------------------------- keys
ContextPrefix == <<"a","i","o","g","d",":","c","o","n","t","e","x","t",":">>
StackPrefix == <<"a","i","o","g","d",":","s","t","a","c","k",":">>

StorageKey(destiny) ==
  [bot_id |-> BotId, chat_id |-> ChatId, user_id |-> UserId,
   thread_id |-> ThreadId, destiny |-> destiny]

ContextKey(intent_id) == StorageKey(ContextPrefix \o intent_id)

StackKeyBad(stack_id) == StorageKey(ContextPrefix \o stack_id)

StackKey(stack_id) == StorageKey(StackPrefix \o stack_id)

Keys == {ContextKey(i) : i \in IntentIds} \cup {StackKey(s) : s \in StackIds}

\* ------------------------------------------------------ _state
\* (text before the last ":")
PartitionLast(t) ==
  LET RECURSIVE P(_)
      P(k) == IF k < 1 THEN t
              ELSE IF t[k] = ":" THEN SubSeq(t, 1, k - 1) ELSE P(k - 1)
  IN P(Len(t))

\* str.partition(":")[0]: the text before the first ":" (all of it if none)
Partition(t) ==
  LET RECURSIVE P(_)
      P(k) == IF k > Len(t) THEN t
              ELSE IF t[k] = ":" THEN SubSeq(t, 1, k - 1) ELSE P(k + 1)
  IN P(1)

\* (returns the last matching member instead of the first)
RECURSIVE ScanStatesLastMatch(_, _, _)
ScanStatesLastMatch(states, t, k) ==
  IF k > Len(states) THEN <<>>
  ELSE LET rest == ScanStatesLastMatch(states, t, k + 1) IN
       IF rest # <<>> THEN rest
       ELSE IF states[k].state = t THEN <<states[k]>> ELSE <<>>

\* for real_state in group.__all_states__: if real_state.state == state: return
RECURSIVE ScanStates(_, _, _)
ScanStates(states, t, k) ==
  IF k > Len(states) THEN <<>>
  ELSE IF states[k].state = t THEN <<states[k]>>
  ELSE ScanStates(states, t, k + 1)

ResolveStateBad(t) ==
  LET group == Partition(t) IN
  IF group \notin DOMAIN state_groups
  THEN [err |-> "UnknownState", msg |-> t, val |-> <<>>]
  ELSE LET found == ScanStates(state_groups[group], t, 1) IN
       IF found = <<>>
       THEN [err |-> "UnknownState", msg |-> t, val |-> <<>>]
       ELSE [err |-> "", msg |-> <<>>, val |-> found]

\* result: [err |-> "" or "UnknownState", msg |-> text named, val |-> <<State>>]
ResolveState(t) ==
  LET group == Partition(t) IN
  IF group \notin DOMAIN state_groups
  THEN [err |-> "UnknownState", msg |-> group, val |-> <<>>]
  ELSE LET found == ScanStates(state_groups[group], t, 1) IN
       IF found = <<>>
       THEN [err |-> "UnknownState", msg |-> t, val |-> <<>>]
       ELSE [err |-> "", msg |-> <<>>, val |-> found]

\* ---------------------------------------------- access settings
Get(d, k, default) == IF k \in DOMAIN d THEN d[k] ELSE default

ParseAccessSettingsBad(raw) ==
  IF raw = <<>> \/ DOMAIN raw[1] = {}
  THEN [err |-> FALSE, val |-> <<>>]
  ELSE LET d == raw[1]
           ms == Get(d, "member_status", <<>>)
           msOk == ms # <<>> /\ ms[1] # "" /\ ms[1] \in ChatMemberStatus
           uids == Get(d, "user_ids", <<>>)
       IN [err |-> FALSE,
           val |-> <<[user_ids |-> IF uids = <<>> THEN <<>> ELSE uids[1],
                      member_status |-> IF msOk THEN ms ELSE <<>>,
                      custom |-> Get(d, "custom", <<>>)]>>]

\* raw: Optional[dict]; result [err |-> BOOLEAN, val |-> Optional[AccessSettings]]
ParseAccessSettings(raw) ==
  IF raw = <<>> \/ DOMAIN raw[1] = {}
  THEN [err |-> FALSE, val |-> <<>>]
  ELSE LET d == raw[1]
           ms == Get(d, "member_status", <<>>)
           msTruthy == ms # <<>> /\ ms[1] # ""
           uids == Get(d, "user_ids", <<>>)
       IN IF msTruthy /\ ms[1] \notin ChatMemberStatus
          THEN [err |-> TRUE, val |-> <<>>]
          ELSE [err |-> FALSE,
                val |-> <<[user_ids |-> IF uids = <<>> THEN <<>> ELSE uids[1],
                           member_status |-> IF msTruthy THEN ms ELSE <<>>,
                           custom |-> Get(d, "custom", <<>>)]>>]

DumpAccessSettingsBad(as) ==
  IF as = <<>> \/ (as[1].user_ids = <<>> /\ as[1].member_status = <<>> /\ as[1].custom = <<>>)
  THEN <<>>
  ELSE <<[user_ids |-> <<as[1].user_ids>>,
          member_status |-> as[1].member_status,
          custom |-> as[1].custom]>>

\* an AccessSettings dataclass instance is always truthy
DumpAccessSettings(as) ==
  IF as = <<>> THEN <<>>
  ELSE <<[user_ids |-> <<as[1].user_ids>>,
          member_status |-> as[1].member_status,
          custom |-> as[1].custom]>>

\* --------------------------------------------------------- entities
AccessSettingsSet ==
  {[user_ids |-> <<>>, member_status |-> <<>>, custom |-> <<>>]} \cup
  {[user_ids |-> <<1, 2>>, member_status |-> <<"administrator">>, custom |-> <<1>>]}

Contexts ==
  [intent_id : IntentIds, stack_id : {<<>>}, state : RegStates,
   start_data : {<<>>}, dialog_data : {{}}, widget_data : {{}}]

Stacks ==
  [_id : StackIds, intents : {<<>>, <<<<"i">>>>},
   last_message_id : {<<>>} \cup {<<m>> : m \in MessageIds},
   access_settings : {<<>>} \cup {<<a>> : a \in AccessSettingsSet}]

FreshStack(stack_id) ==
  [_id |-> stack_id, intents |-> <<>>, last_message_id |-> <<>>,
   access_settings |-> <<>>]

\* stack.empty() and not stack.last_message_id
IsEmptyStack(s) == s.intents = <<>> /\ s.last_message_id = <<>>

\* Records already in the shared store when the proxy is built: context
\* records whose state is no longer registered, and stack records written
\* before the access_settings field existed.
PreContextRecords(i) ==
  {[intent_id |-> i, stack_id |-> <<>>, state |-> t, start_data |-> <<>>,
    dialog_data |-> {}, widget_data |-> {}] :
     t \in {<<"O", ":", "a">>, <<"M", ":", "c">>}}
LegacyStackRecords(s) ==
  {[_id |-> s, intents |-> <<<<"i">>>>, last_message_id |-> <<1>>]}

InitRecords(k) ==
  {<<>>} \cup UNION {PreContextRecords(i) : i \in {i \in {<<"j">>} : ContextKey(i) = k}}
         \cup UNION {LegacyStackRecords(s) : s \in {s \in {<<"i">>} : StackKey(s) = k}}

\* ------------------------------------------------------- variables
VARIABLES
  store,    \* the key-value store: StorageKey -> dict
  ctxW,     \* per intent id: last write to its key ("pre", "save", "remove", "other")
  stW,      \* per stack id: last write to its key
  op,       \* last operation: [name, arg |-> <<id>> or <<>>]
  result,   \* outcome of the last operation
  reads,    \* keys read by the last operation, in order
  writes,   \* keys written by the last operation, in order
  rtext, rres,                 \* _state input and outcome
  araw, aobj, apres, adpres    \* access-settings inputs and outcomes

storeVars == <<store, ctxW, stW, op, result, reads, writes>>
resolveVars == <<rtext, rres>>
accessVars == <<araw, aobj, apres, adpres>>
vars == <<store, ctxW, stW, op, result, reads, writes, rtext, rres,
          araw, aobj, apres, adpres>>

NoResult == [kind |-> "none", ctx |-> <<>>, stack |-> <<>>, err |-> ""]
ErrResult(e) == [kind |-> "error", ctx |-> <<>>, stack |-> <<>>, err |-> e]
CtxResult(c) == [kind |-> "context", ctx |-> <<c>>, stack |-> <<>>, err |-> ""]
StackResult(s) == [kind |-> "stack", ctx |-> <<>>, stack |-> <<s>>, err |-> ""]

PreWrite == [by |-> "pre", ent |-> <<>>]

\* ghost bookkeeping for one store write to key k by entity (kind, id)
UpdCtxW(k, kind, id, by, ent) ==
  [i \in IntentIds |->
     IF kind = "context" /\ i = id THEN [by |-> by, ent |-> ent]
     ELSE IF ContextKey(i) = k THEN [by |-> "other", ent |-> <<>>]
     ELSE ctxW[i]]
UpdStW(k, kind, id, by, ent) ==
  [s \in StackIds |->
     IF kind = "stack" /\ s = id THEN [by |-> by, ent |-> ent]
     ELSE IF StackKey(s) = k THEN [by |-> "other", ent |-> <<>>]
     ELSE stW[s]]

InitResolve0 == rtext = <<>> /\ rres = [done |-> FALSE, err |-> "", msg |-> <<>>, val |-> <<>>]
InitAccess0 == araw = <<>> /\ aobj = <<>> /\ apres = [done |-> FALSE, err |-> FALSE, val |-> <<>>]
               /\ adpres = [done |-> FALSE, err |-> FALSE, val |-> <<>>]

InitStore ==
  /\ store \in {f \in [Keys -> UNION {InitRecords(k) : k \in Keys}] :
                  \A k \in Keys : f[k] \in InitRecords(k)}
  /\ ctxW = [i \in IntentIds |-> PreWrite]
  /\ stW = [s \in StackIds |-> PreWrite]
  /\ op = [name |-> "init", arg |-> <<>>]
  /\ result = NoResult
  /\ reads = <<>>
  /\ writes = <<>>

Init == InitStore /\ InitResolve0 /\ InitAccess0

\* --------------------------------------------------------- actions
\* load_context: one read; UnknownIntent on an empty record; the state
\* text is resolved through _state, then Context(**data).
LoadContextResult(data) ==
  IF DOMAIN data = {} THEN ErrResult("UnknownIntent")
  ELSE LET r == ResolveState(data.state) IN
       IF r.err # "" THEN ErrResult(r.err)
       ELSE CtxResult([data EXCEPT !.state = r.val[1]])

LoadContext(i) ==
  /\ op' = [name |-> "load_context", arg |-> <<i>>]
  /\ reads' = <<ContextKey(i)>>
  /\ writes' = <<>>
  /\ result' = LoadContextResult(store[ContextKey(i)])
  /\ UNCHANGED <<store, ctxW, stW, resolveVars, accessVars>>

\* load_stack: one read; an empty record gives Stack(_id=stack_id); else
\* data.pop("access_settings") (KeyError when missing) is parsed and
\* Stack(access_settings=..., **data) is built.
LoadStackResultBad(stack_id, data) ==
  IF DOMAIN data = {} THEN ErrResult("UnknownIntent")
  ELSE IF "access_settings" \notin DOMAIN data THEN ErrResult("KeyError")
  ELSE LET p == ParseAccessSettings(data.access_settings) IN
       IF p.err THEN ErrResult("ValueError")
       ELSE StackResult([data EXCEPT !.access_settings = p.val])

LoadStackResult(stack_id, data) ==
  IF DOMAIN data = {} THEN StackResult(FreshStack(stack_id))
  ELSE IF "access_settings" \notin DOMAIN data THEN ErrResult("KeyError")
  ELSE LET p == ParseAccessSettings(data.access_settings) IN
       IF p.err THEN ErrResult("ValueError")
       ELSE StackResult([data EXCEPT !.access_settings = p.val])

LoadStackWriteBack(s) ==
  /\ op' = [name |-> "load_stack", arg |-> <<s>>]
  /\ reads' = <<StackKey(s)>>
  /\ writes' = IF DOMAIN store[StackKey(s)] = {} THEN <<StackKey(s)>> ELSE <<>>
  /\ result' = LoadStackResult(s, store[StackKey(s)])
  /\ UNCHANGED <<store, ctxW, stW, resolveVars, accessVars>>

LoadStack(s) ==
  /\ op' = [name |-> "load_stack", arg |-> <<s>>]
  /\ reads' = <<StackKey(s)>>
  /\ writes' = <<>>
  /\ result' = LoadStackResult(s, store[StackKey(s)])
  /\ UNCHANGED <<store, ctxW, stW, resolveVars, accessVars>>

\* save_context: no-op on None; else vars(context) with state replaced by
\* its text, written under the context key of context.id.
SaveContext(arg) ==
  /\ result' = NoResult
  /\ reads' = <<>>
  /\ IF arg = <<>>
     THEN /\ op' = [name |-> "save_context", arg |-> <<>>]
          /\ writes' = <<>>
          /\ UNCHANGED <<store, ctxW, stW>>
     ELSE LET c == arg[1]
              k == ContextKey(c.intent_id)
          IN /\ op' = [name |-> "save_context", arg |-> <<c.intent_id>>]
             /\ writes' = <<k>>
             /\ store' = [store EXCEPT ![k] = [c EXCEPT !.state = c.state.state]]
             /\ ctxW' = UpdCtxW(k, "context", c.intent_id, "save", <<c>>)
             /\ stW' = UpdStW(k, "context", c.intent_id, "save", <<c>>)
  /\ UNCHANGED <<resolveVars, accessVars>>

RemoveContextNoop(i) ==
  /\ op' = [name |-> "remove_context", arg |-> <<i>>]
  /\ result' = NoResult
  /\ reads' = <<>>
  /\ writes' = <<ContextKey(i)>>
  /\ store' = store
  /\ ctxW' = UpdCtxW(ContextKey(i), "context", i, "remove", <<>>)
  /\ stW' = UpdStW(ContextKey(i), "context", i, "remove", <<>>)
  /\ UNCHANGED <<resolveVars, accessVars>>

\* remove_context: writes {} under the context key
RemoveContext(i) ==
  /\ op' = [name |-> "remove_context", arg |-> <<i>>]
  /\ result' = NoResult
  /\ reads' = <<>>
  /\ writes' = <<ContextKey(i)>>
  /\ store' = [store EXCEPT ![ContextKey(i)] = <<>>]
  /\ ctxW' = UpdCtxW(ContextKey(i), "context", i, "remove", <<>>)
  /\ stW' = UpdStW(ContextKey(i), "context", i, "remove", <<>>)
  /\ UNCHANGED <<resolveVars, accessVars>>

\* remove_stack: writes {} under the stack key
RemoveStack(s) ==
  /\ op' = [name |-> "remove_stack", arg |-> <<s>>]
  /\ result' = NoResult
  /\ reads' = <<>>
  /\ writes' = <<StackKey(s)>>
  /\ store' = [store EXCEPT ![StackKey(s)] = <<>>]
  /\ ctxW' = UpdCtxW(StackKey(s), "stack", s, "remove", <<>>)
  /\ stW' = UpdStW(StackKey(s), "stack", s, "remove", <<>>)
  /\ UNCHANGED <<resolveVars, accessVars>>

\* save_stack: no-op on None; a logically empty stack is written as {};
\* otherwise vars(stack) with access_settings dumped.
StackDataBad(s) ==
  IF IsEmptyStack(s) /\ s.access_settings = <<>> THEN <<>>
  ELSE [s EXCEPT !.access_settings = DumpAccessSettings(s.access_settings)]

StackData(s) ==
  IF IsEmptyStack(s) THEN <<>>
  ELSE [s EXCEPT !.access_settings = DumpAccessSettings(s.access_settings)]

SaveStack(arg) ==
  /\ result' = NoResult
  /\ reads' = <<>>
  /\ IF arg = <<>>
     THEN /\ op' = [name |-> "save_stack", arg |-> <<>>]
          /\ writes' = <<>>
          /\ UNCHANGED <<store, ctxW, stW>>
     ELSE LET s == arg[1]
              k == StackKey(s._id)
          IN /\ op' = [name |-> "save_stack", arg |-> <<s._id>>]
             /\ writes' = <<k>>
             /\ store' = [store EXCEPT ![k] = StackData(s)]
             /\ ctxW' = UpdCtxW(k, "stack", s._id, "save", <<s>>)
             /\ stW' = UpdStW(k, "stack", s._id, "save", <<s>>)
  /\ UNCHANGED <<resolveVars, accessVars>>

Next ==
  \/ \E i \in IntentIds : LoadContext(i)
  \/ \E s \in StackIds : LoadStack(s)
  \/ \E a \in {<<>>} \cup {<<c>> : c \in Contexts} : SaveContext(a)
  \/ \E i \in IntentIds : RemoveContext(i)
  \/ \E s \in StackIds : RemoveStack(s)
  \/ \E a \in {<<>>} \cup {<<s>> : s \in Stacks} : SaveStack(a)

Spec == Init /\ [][Next]_vars

\* ------------------------------------------- _state on its own
Alphabet == {"M", "N", "O", ":", "a", "b"}
Texts == UNION {[1..n -> Alphabet] : n \in 0..MaxTextLen}
         \cup {st.state : st \in RegStates}

InitStoreEmpty ==
  /\ store = [k \in Keys |-> <<>>]
  /\ ctxW = [i \in IntentIds |-> PreWrite]
  /\ stW = [s \in StackIds |-> PreWrite]
  /\ op = [name |-> "init", arg |-> <<>>]
  /\ result = NoResult
  /\ reads = <<>>
  /\ writes = <<>>

InitResolve ==
  /\ InitStoreEmpty /\ InitAccess0
  /\ rtext \in Texts
  /\ rres = [done |-> FALSE, err |-> "", msg |-> <<>>, val |-> <<>>]

Resolve ==
  /\ ~rres.done
  /\ rres' = [done |-> TRUE] @@ ResolveState(rtext)
  /\ UNCHANGED <<storeVars, rtext, accessVars>>

NextResolve == Resolve

SpecResolve == InitResolve /\ [][NextResolve]_vars

\* ------------------------------- access settings on their own
RawUserIds == {<<>>, <<<<>>>>, <<<<1, 2>>>>}
RawMemberStatus == {<<>>, <<"">>, <<"administrator">>, <<"admin">>}
RawCustom == {<<>>, <<1>>}
RawDicts ==
  {[f \in D |-> r[f]] :
     r \in [user_ids : RawUserIds, member_status : RawMemberStatus, custom : RawCustom],
     D \in SUBSET {"user_ids", "member_status", "custom"}}

InitAccess ==
  /\ InitStoreEmpty /\ InitResolve0
  /\ araw \in {<<>>} \cup {<<d>> : d \in RawDicts}
  /\ aobj \in {<<>>} \cup {<<a>> : a \in AccessSettingsSet}
  /\ apres = [done |-> FALSE, err |-> FALSE, val |-> <<>>]
  /\ adpres = [done |-> FALSE, err |-> FALSE, val |-> <<>>]

ParseRaw ==
  /\ ~apres.done
  /\ apres' = [done |-> TRUE] @@ ParseAccessSettings(araw)
  /\ UNCHANGED <<storeVars, resolveVars, araw, aobj, adpres>>

DumpThenParse ==
  /\ ~adpres.done
  /\ adpres' = [done |-> TRUE] @@ ParseAccessSettings(DumpAccessSettings(aobj))
  /\ UNCHANGED <<storeVars, resolveVars, araw, aobj, apres>>

NextAccess == ParseRaw \/ DumpThenParse

SpecAccess == InitAccess /\ [][NextAccess]_vars

\* ================================================================ claims
LoadOps == {"load_context", "load_stack"}
WriteOps == {"save_context", "save_stack", "remove_context", "remove_stack"}
KeyOf(o) ==
  IF o.name \in {"load_context", "save_context", "remove_context"}
  THEN ContextKey(o.arg[1]) ELSE StackKey(o.arg[1])

Range(f) == {f[k] : k \in DOMAIN f}
GroupOf(t) ==
  CHOOSE g \in {SubSeq(t, 1, n) : n \in 0..Len(t)} :
    /\ ":" \notin Range(g)
    /\ (Len(g) = Len(t) \/ t[Len(g) + 1] = ":")

\* a stack value with no intents and last_message_id None
NoHistoryNoMsg(s) == s.intents = <<>> /\ s.last_message_id = <<>>

\* C1 (as stated): after save_context(c), load_context(c.id) with no write to
\* that key in between returns c itself, with the identical registry state
\* instance.  Refuted when two registry states share an identifier.
C1_ContextRoundTrip ==
  op.name = "load_context" =>
    LET i == op.arg[1] IN
    ctxW[i].by = "save" => result = CtxResult(ctxW[i].ent[1])

\* the first member, in declared order, of the group named before the first
\* ":" of st's identifier whose identifier equals st's
FirstSameId(st) ==
  LET L == state_groups[GroupOf(st.state)]
      hits == {k \in 1..Len(L) : L[k].state = st.state}
  IN L[CHOOSE k \in hits : \A j \in hits : k <= j]

\* C1 (amended): after save_context(c), load_context(c.id) with no write to
\* that key in between returns a context with c's id and other fields, whose
\* state is the first registry member of its group with c.state's
\* identifier (c.state itself when no earlier member shares it).
C1_ContextRoundTripFirst ==
  op.name = "load_context" =>
    LET i == op.arg[1] IN
    ctxW[i].by = "save" =>
      LET c == ctxW[i].ent[1] IN
      result = CtxResult([c EXCEPT !.state = FirstSameId(c.state)])

C1_Witness ==
  /\ op.name = "load_context"
  /\ ctxW[op.arg[1]].by = "save"
  /\ ctxW[op.arg[1]].ent[1].state = StateMd

\* C2: after save_stack(s) of a stack with history or a last message id,
\* load_stack(s.id) returns s, access_settings included (None stays None,
\* an all-empty AccessSettings stays present).
C2_StackRoundTrip ==
  op.name = "load_stack" =>
    LET s == op.arg[1] IN
    (stW[s].by = "save" /\ ~NoHistoryNoMsg(stW[s].ent[1]))
      => result = StackResult(stW[s].ent[1])

C2_Witness ==
  /\ op.name = "load_stack"
  /\ stW[op.arg[1]].by = "save"
  /\ ~NoHistoryNoMsg(stW[op.arg[1]].ent[1])
  /\ stW[op.arg[1]].ent[1].access_settings =
       <<[user_ids |-> <<>>, member_status |-> <<>>, custom |-> <<>>]>>

\* C3: after one or more remove_context(i), load_context(i) raises
\* UnknownIntent; after one or more remove_stack(s), load_stack(s) returns
\* Stack(_id=s); a second remove in a row leaves the store unchanged.
C3_RemoveLoads ==
  /\ op.name = "load_context" =>
       (ctxW[op.arg[1]].by = "remove" => result = ErrResult("UnknownIntent"))
  /\ op.name = "load_stack" =>
       (stW[op.arg[1]].by = "remove" => result = StackResult(FreshStack(op.arg[1])))

C3_RemoveTwice ==
  (op.name \in {"remove_context", "remove_stack"} /\ op' = op) => store' = store

C3_Tombstoning == []C3_RemoveLoads /\ [][C3_RemoveTwice]_vars

C3_Witness ==
  /\ op.name = "load_context"
  /\ ctxW[op.arg[1]].by = "remove"

\* C4: save_stack of a stack with no history and no last message id writes
\* {} whatever its access_settings, and load_stack then returns
\* Stack(_id=s.id) with no access settings.
C4_EmptyStackSaved ==
  /\ \A s \in StackIds :
       (stW[s].by = "save" /\ NoHistoryNoMsg(stW[s].ent[1])) => store[StackKey(s)] = <<>>
  /\ op.name = "load_stack" =>
       LET s == op.arg[1] IN
       (stW[s].by = "save" /\ NoHistoryNoMsg(stW[s].ent[1]))
         => result = StackResult(FreshStack(s))

C4_Witness ==
  /\ op.name = "load_stack"
  /\ stW[op.arg[1]].by = "save"
  /\ NoHistoryNoMsg(stW[op.arg[1]].ent[1])
  /\ stW[op.arg[1]].ent[1].access_settings # <<>>

\* C5: _state(t) looks up the group before the first ":"; an unknown group
\* raises UnknownState naming the group, else the first member (in declared
\* order) whose identifier equals t is returned, else UnknownState naming t.
\* A returned state is always a registry instance.

C5_StateResolution ==
  rres.done =>
    LET g == GroupOf(rtext) IN
    /\ IF g \notin DOMAIN state_groups
       THEN rres.err = "UnknownState" /\ rres.msg = g
       ELSE LET L == state_groups[g]
                hits == {k \in 1..Len(L) : L[k].state = rtext}
            IN IF hits = {}
               THEN rres.err = "UnknownState" /\ rres.msg = rtext
               ELSE \E k \in hits : /\ \A j \in hits : k <= j
                                    /\ rres.err = ""
                                    /\ rres.val = <<L[k]>>
    /\ rres.err = "" => rres.val[1] \in RegStates

C5_Witness == rres.done /\ rtext = StateMd.state /\ rres.val = <<StateMa>>

\* C6: loading a missing or empty record: load_context raises
\* UnknownIntent, load_stack returns Stack(_id=id); neither writes.
C6_MissingRecords ==
  (op'.name \in LoadOps /\ DOMAIN store[KeyOf(op')] = {}) =>
    /\ store' = store
    /\ writes' = <<>>
    /\ op'.name = "load_context" => result' = ErrResult("UnknownIntent")
    /\ op'.name = "load_stack" => result' = StackResult(FreshStack(op'.arg[1]))

C6_Missing == [][C6_MissingRecords]_vars

C6_Witness ==
  /\ op.name = "load_stack"
  /\ stW[op.arg[1]].by = "pre"
  /\ store[StackKey(op.arg[1])] = <<>>
  /\ result = StackResult(FreshStack(op.arg[1]))

\* C7: a non-empty stored stack record without an access_settings field
\* loads as a Stack with no access settings instead of failing.
C7_OmittedAccessSettings ==
  op.name = "load_stack" =>
    LET d == store[StackKey(op.arg[1])] IN
    (DOMAIN d # {} /\ "access_settings" \notin DOMAIN d) =>
      /\ result.kind = "stack"
      /\ result.stack[1].access_settings = <<>>

\* C8: parsing an absent or empty sub-record gives None; otherwise user_ids
\* defaults to [] when missing, a non-empty member_status is decoded (an
\* unknown literal raises), custom passes through; dump(None) parses to None.
C8_AccessSettingsParse ==
  /\ apres.done =>
       IF araw = <<>> \/ DOMAIN araw[1] = {}
       THEN ~apres.err /\ apres.val = <<>>
       ELSE LET d == araw[1]
                msSet == "member_status" \in DOMAIN d /\ d.member_status # <<>>
                         /\ d.member_status[1] # ""
            IN /\ apres.err <=> (msSet /\ d.member_status[1] \notin ChatMemberStatus)
               /\ ~apres.err =>
                    /\ apres.val # <<>>
                    /\ "user_ids" \notin DOMAIN d => apres.val[1].user_ids = <<>>
                    /\ ("user_ids" \in DOMAIN d /\ d.user_ids # <<>>)
                         => apres.val[1].user_ids = d.user_ids[1]
                    /\ apres.val[1].member_status =
                         (IF msSet THEN d.member_status ELSE <<>>)
                    /\ apres.val[1].custom = Get(d, "custom", <<>>)
  /\ (adpres.done /\ aobj = <<>>) => (~adpres.err /\ adpres.val = <<>>)

C8_Witness ==
  /\ apres.done /\ adpres.done /\ aobj = <<>>
  /\ apres.val # <<>>
  /\ apres.val[1].member_status = <<"administrator">>

\* C9: a load reads its key once and writes nothing; a save of a non-None
\* entity or a remove writes its own key once and no other key; save of
\* None touches nothing.
C9_Counts ==
  /\ op.name \in LoadOps => reads = <<KeyOf(op)>> /\ writes = <<>>
  /\ (op.name \in WriteOps /\ op.arg # <<>>) => writes = <<KeyOf(op)>> /\ reads = <<>>
  /\ (op.name \in {"save_context", "save_stack"} /\ op.arg = <<>>)
       => reads = <<>> /\ writes = <<>>

C9_Frame ==
  /\ (op'.name \in LoadOps \/ (op'.name \in WriteOps /\ op'.arg = <<>>)) => store' = store
  /\ (op'.name \in WriteOps /\ op'.arg # <<>>) =>
       \A k \in Keys \ {KeyOf(op')} : store'[k] = store[k]

C9_SideEffects == []C9_Counts /\ [][C9_Frame]_vars

C9_Witness == op.name = "save_stack" /\ op.arg # <<>> /\ writes # <<>>

\* C10: context keys and stack keys never coincide and distinct ids give
\* distinct keys; a save or remove of one entity never changes what a load
\* of any other context or stack returns.
IdStrings == UNION {[1..n -> {"i", "s", ":"}] : n \in 0..MaxIdLen}
KeysInjective ==
  \A a, b \in IdStrings :
    /\ ContextKey(a) # StackKey(b)
    /\ a # b => (ContextKey(a) # ContextKey(b) /\ StackKey(a) # StackKey(b))

CtxTarget(o) ==
  IF o.name \in {"save_context", "remove_context"} /\ o.arg # <<>> THEN {o.arg[1]} ELSE {}
StackTarget(o) ==
  IF o.name \in {"save_stack", "remove_stack"} /\ o.arg # <<>> THEN {o.arg[1]} ELSE {}

C10_OthersUnchanged ==
  /\ \A i \in IntentIds \ CtxTarget(op') :
       LoadContextResult(store'[ContextKey(i)]) = LoadContextResult(store[ContextKey(i)])
  /\ \A s \in StackIds \ StackTarget(op') :
       LoadStackResult(s, store'[StackKey(s)]) = LoadStackResult(s, store[StackKey(s)])

C10_KeyIsolation == []KeysInjective /\ [][C10_OthersUnchanged]_vars

C10_Witness ==
  /\ op.name = "save_stack" /\ op.arg = <<<<"i">>>>
  /\ ctxW[<<"i">>].by = "save"
====
